---- MODULE Spec2Model ----
(***************************************************************************)
(* Model of the sudoku engine (src/src/sudoku.rs) and of the difficulty    *)
(* banded generator that drives it (src/src/main.rs).                      *)
(*                                                                         *)
(* grid[y][x] is the cell in column x of row y, 0 is an empty cell.  The   *)
(* Vec<usize> lists the code builds (numbers, allowed_numbers...) are      *)
(* sequences, in the order the code produces them.                         *)
(***************************************************************************)
EXTENDS Integers, Sequences, FiniteSets, TLC

VARIABLES
    mode,          \* Sudoku.mode : ModeType
    grid,          \* Sudoku.grid
    pc,            \* position of the caller / of generate / of the solver
    call,          \* arguments of the last set(x, y, value) call of the caller
    ret,           \* what that call returned: "ok", "row", "column", "block"
    prev,          \* the grid on entry to that call
    stack,         \* frames of solve_ultimately: [x, y, allowed_numbers, i]
    sret,          \* value returned by the last solve_ultimately that returned
    input,         \* the grid on entry to solve
    caller,        \* who called solve: "solve" (the API) or "generate"
    base_numbers,  \* generate: placements still to make while seeding
    dig_numbers,   \* generate: cells still to clear while digging
    puzzle,        \* the grid generate handed back
    attempts,      \* gen_board_with_difficulty: failed attempts so far
    difficulty,    \* gen_board_with_difficulty: the requested band
    count          \* gen_board_with_difficulty: sudoku.get_count()

vars == <<mode, grid, pc, call, ret, prev, stack, sret, input, caller,
          base_numbers, dig_numbers, puzzle, attempts, difficulty, count>>

----------------------------------------------------------------------------
(* Bounds of the exploration.                                              *)

\* set API: largest column / row index the caller of set uses in a 4x4 grid
MaxCoord == 2
\* set API: the caller never fills more than this many cells
MaxFilled == 4

\* set API with out-of-range values: the caller never fills more than this many
\* cells
MaxFilledAny == 3

\* set API on the 9x9 grid: the caller draws from the cells and digits of the
\* documented scenario (set(0,0,5), set(0,1,5), set(1,0,5), set(3,3,5))
ScenarioCoords == {0, 1, 3}
ScenarioValues == {0, 5, 6}

\* solve: the boards handed to set_board differ from a base board (blank, one
\* with two givens, or a completely filled valid one) in at most MaxGivens cells, all of them in
\* columns 0..MaxBoardX of rows 0..MaxBoardY
MaxGivens == 3
MaxBoardX == 2
MaxBoardY == 1

\* generate, seeding: the cells the random generator draws are in columns
\* 0..MaxFillX of rows 0..MaxFillY
MaxFillX == 2
MaxFillY == 1

\* generate, digging, when followed by the caller's solve: the cells the random
\* generator draws are in rows 0..MaxDigY (every column)
MaxDigY == 2

\* get_difficulty: the boards handed to set_board have at most MaxSide rows (a
\* board larger than the 9x9 mode's grid holds more than 81 cells)
MaxSide == 10

Min(a, b) == IF a < b THEN a ELSE b

----------------------------------------------------------------------------
(* Mode registry and grid model.                                           *)

MODES ==
    [k \in {"4", "6", "8", "9"} |->
        CASE k = "4" -> [width |-> 2, height |-> 2, lower_size |-> 4,  higher_size |-> 8]
          [] k = "6" -> [width |-> 3, height |-> 2, lower_size |-> 9,  higher_size |-> 18]
          [] k = "8" -> [width |-> 2, height |-> 4, lower_size |-> 18, higher_size |-> 36]
          [] k = "9" -> [width |-> 3, height |-> 3, lower_size |-> 17, higher_size |-> 40]]

block_size(m) == m.width * m.height

numbers(m) == [i \in 1..block_size(m) |-> i]

default_grid(n) == [y \in 0..(n - 1) |-> [x \in 0..(n - 1) |-> 0]]

get(g, x, y) == g[y][x]

row(g, y) == g[y]

column(g, x) == [y \in DOMAIN g |-> g[y][x]]

\* Vec::contains
Contains(vec, v) == \E i \in DOMAIN vec : vec[i] = v

get_count(g) == Cardinality({c \in (DOMAIN g) \X (DOMAIN g) : g[c[1]][c[2]] > 0})

----------------------------------------------------------------------------
(* Constraint evaluator.                                                   *)

allowed_numbers_in_row(g, m, y) ==
    SelectSeq(numbers(m), LAMBDA num : ~Contains(row(g, y), num))

allowed_numbers_in_column(g, m, x) ==
    SelectSeq(numbers(m), LAMBDA num : ~Contains(column(g, x), num))

allowed_numbers_in_block(g, m, x, y) ==
    LET bx == (x \div m.width) * m.width
        by == (y \div m.height) * m.height
        numbers_in_block ==
            {get(g, bx + i, by + j) : i \in 0..(m.width - 1), j \in 0..(m.height - 1)}
    IN  SelectSeq(numbers(m), LAMBDA num : num \notin numbers_in_block)

allowed_numbers(g, m, x, y) ==
    LET numbers_in_block == allowed_numbers_in_block(g, m, x, y)
    IN  IF Len(numbers_in_block) > 1
        THEN LET numbers_in_row == allowed_numbers_in_row(g, m, y)
                 numbers_in_column == allowed_numbers_in_column(g, m, x)
             IN  SelectSeq(numbers_in_block,
                           LAMBDA num : Contains(numbers_in_row, num)
                                        /\ Contains(numbers_in_column, num))
        ELSE numbers_in_block

----------------------------------------------------------------------------
(* Sudoku::set.  The result is the Result's kind ("ok", or the scope the   *)
(* error message names) and the grid the call leaves.                      *)

\* set as it would be with the column tested before the row
set_column_first(g, m, x, y, value) ==
    IF value > 0 /\ get(g, x, y) = value
        THEN [ret |-> "ok", grid |-> g]
    ELSE IF value > 0 /\ ~Contains(allowed_numbers_in_column(g, m, x), value)
        THEN [ret |-> "column", grid |-> g]
    ELSE IF value > 0 /\ ~Contains(allowed_numbers_in_row(g, m, y), value)
        THEN [ret |-> "row", grid |-> g]
    ELSE IF value > 0 /\ ~Contains(allowed_numbers_in_block(g, m, x, y), value)
        THEN [ret |-> "block", grid |-> g]
    ELSE [ret |-> "ok", grid |-> [g EXCEPT ![y][x] = value]]

\* set as it would be with the write made before the block test
set_write_first(g, m, x, y, value) ==
    IF value > 0 /\ get(g, x, y) = value
        THEN [ret |-> "ok", grid |-> g]
    ELSE IF value > 0 /\ ~Contains(allowed_numbers_in_row(g, m, y), value)
        THEN [ret |-> "row", grid |-> g]
    ELSE IF value > 0 /\ ~Contains(allowed_numbers_in_column(g, m, x), value)
        THEN [ret |-> "column", grid |-> g]
    ELSE IF value > 0 /\ ~Contains(allowed_numbers_in_block(g, m, x, y), value)
        THEN [ret |-> "block", grid |-> [g EXCEPT ![y][x] = value]]
    ELSE [ret |-> "ok", grid |-> [g EXCEPT ![y][x] = value]]

\* set as it would be without the early return for a cell that holds value
set_revalidate(g, m, x, y, value) ==
    IF value > 0 /\ ~Contains(allowed_numbers_in_row(g, m, y), value)
        THEN [ret |-> "row", grid |-> g]
    ELSE IF value > 0 /\ ~Contains(allowed_numbers_in_column(g, m, x), value)
        THEN [ret |-> "column", grid |-> g]
    ELSE IF value > 0 /\ ~Contains(allowed_numbers_in_block(g, m, x, y), value)
        THEN [ret |-> "block", grid |-> g]
    ELSE [ret |-> "ok", grid |-> [g EXCEPT ![y][x] = value]]

\* set as it would be without the column test
set_skip_column(g, m, x, y, value) ==
    IF value > 0 /\ get(g, x, y) = value
        THEN [ret |-> "ok", grid |-> g]
    ELSE IF value > 0 /\ ~Contains(allowed_numbers_in_row(g, m, y), value)
        THEN [ret |-> "row", grid |-> g]
    ELSE IF value > 0 /\ ~Contains(allowed_numbers_in_block(g, m, x, y), value)
        THEN [ret |-> "block", grid |-> g]
    ELSE [ret |-> "ok", grid |-> [g EXCEPT ![y][x] = value]]

set(g, m, x, y, value) ==
    IF value > 0 /\ get(g, x, y) = value
        THEN [ret |-> "ok", grid |-> g]
    ELSE IF value > 0 /\ ~Contains(allowed_numbers_in_row(g, m, y), value)
        THEN [ret |-> "row", grid |-> g]
    ELSE IF value > 0 /\ ~Contains(allowed_numbers_in_column(g, m, x), value)
        THEN [ret |-> "column", grid |-> g]
    ELSE IF value > 0 /\ ~Contains(allowed_numbers_in_block(g, m, x, y), value)
        THEN [ret |-> "block", grid |-> g]
    ELSE [ret |-> "ok", grid |-> [g EXCEPT ![y][x] = value]]

----------------------------------------------------------------------------
(* Solver: the pure parts.                                                 *)

None == "None"

\* empty_cells as it would be without the num == 0 test
empty_cells_every(g) ==
    LET n == Cardinality(DOMAIN g)
    IN  [k \in 1..(n * n) |-> <<(k - 1) % n, (k - 1) \div n>>]

\* the cells in the order of the nested enumerate() loops: row by row
empty_cells(g) ==
    LET n == Cardinality(DOMAIN g)
        cells == [k \in 1..(n * n) |-> <<(k - 1) % n, (k - 1) \div n>>]
    IN  SelectSeq(cells, LAMBDA c : g[c[2]][c[1]] = 0)

\* the body of the for loop of any_empty_cell from the k-th empty cell on
RECURSIVE any_empty_cell_scan(_, _, _, _, _, _)
any_empty_cell_scan(g, m, cells, k, min_length, result) ==
    IF k > Len(cells) THEN result
    ELSE LET length == Len(allowed_numbers(g, m, cells[k][1], cells[k][2]))
             result2 == IF length < min_length THEN cells[k] ELSE result
             min_length2 == IF length < min_length THEN length ELSE min_length
         IN  IF length = 1 THEN result2
             ELSE any_empty_cell_scan(g, m, cells, k + 1, min_length2, result2)

any_empty_cell(g, m, allowed_numbers_length) ==
    LET min_length == IF allowed_numbers_length = None THEN block_size(m) + 1
                                                       ELSE allowed_numbers_length
    IN  any_empty_cell_scan(g, m, empty_cells(g), 1, min_length, None)

\* is_solved as it would be with any() in place of the outer all()
is_solved_any(g) == \E y \in DOMAIN g : \A x \in DOMAIN g[y] : g[y][x] > 0

is_solved(g) == \A y \in DOMAIN g : \A x \in DOMAIN g[y] : g[y][x] > 0

\* solve_ultimately as one function: what it returns and the grid it leaves.
\* solve_values is its for loop from the i-th allowed number on.
RECURSIVE solve_ultimately(_, _)
RECURSIVE solve_values(_, _, _, _, _, _)
solve_ultimately(g, m) ==
    IF is_solved(g) THEN [ok |-> TRUE, grid |-> g]
    ELSE LET cell == any_empty_cell(g, m, None)
         IN  IF cell = None THEN [ok |-> FALSE, grid |-> g]
             ELSE solve_values(g, m, cell[1], cell[2],
                               allowed_numbers(g, m, cell[1], cell[2]), 1)

solve_values(g, m, x, y, allowed, i) ==
    IF i > Len(allowed) THEN [ok |-> FALSE, grid |-> g]
    ELSE LET r == set(g, m, x, y, allowed[i])
         IN  IF r.ret = "ok"
             THEN LET sub == solve_ultimately(r.grid, m)
                  IN  IF sub.ok THEN sub
                      ELSE solve_values(set(sub.grid, m, x, y, 0).grid, m, x, y,
                                        allowed, i + 1)
             ELSE solve_values(set(r.grid, m, x, y, 0).grid, m, x, y, allowed, i + 1)

----------------------------------------------------------------------------
(* State shared by the specifications.                                     *)

NoCall == [x |-> 0, y |-> 0, value |-> 0]
NoGrid == <<>>

Idle(m, g, p) ==
    /\ mode = m
    /\ grid = g
    /\ pc = p
    /\ call = NoCall
    /\ ret = "none"
    /\ prev = NoGrid
    /\ stack = <<>>
    /\ sret = FALSE
    /\ input = NoGrid
    /\ caller = "none"
    /\ base_numbers = 0
    /\ dig_numbers = 0
    /\ puzzle = NoGrid
    /\ attempts = 0
    /\ difficulty = "none"
    /\ count = 0

----------------------------------------------------------------------------
(* The set API: a caller holding a blank grid of a mode calls set and      *)
(* reset in any order.                                                     *)

SetCoords(m) ==
    IF block_size(m) = 9 THEN ScenarioCoords
                         ELSE 0..Min(MaxCoord, block_size(m) - 1)

SetValues(m) ==
    IF block_size(m) = 9 THEN ScenarioValues ELSE 0..block_size(m)

InitSet ==
    \E k \in {"4", "9"} : Idle(MODES[k], default_grid(block_size(MODES[k])), "idle")

Set(x, y, value) ==
    /\ pc = "idle"
    /\ LET r == set(grid, mode, x, y, value)
       IN  /\ get_count(r.grid) <= MaxFilled
           /\ grid' = r.grid
           /\ ret' = r.ret
    /\ call' = [x |-> x, y |-> y, value |-> value]
    /\ prev' = grid
    /\ pc' = "returned"
    /\ UNCHANGED <<mode, stack, sret, input, caller, base_numbers, dig_numbers, puzzle,
                   attempts, difficulty, count>>

\* the caller drops the Result and goes on
Resume ==
    /\ pc = "returned"
    /\ pc' = "idle"
    /\ call' = NoCall
    /\ ret' = "none"
    /\ prev' = NoGrid
    /\ UNCHANGED <<mode, grid, stack, sret, input, caller, base_numbers, dig_numbers, puzzle,
                   attempts, difficulty, count>>

Reset ==
    /\ pc = "idle"
    /\ get_count(grid) > 0
    /\ grid' = default_grid(block_size(mode))
    /\ UNCHANGED <<mode, pc, call, ret, prev, stack, sret, input, caller, base_numbers,
                   dig_numbers, puzzle, attempts, difficulty, count>>

NextSet ==
    \/ \E x \in SetCoords(mode), y \in SetCoords(mode), value \in SetValues(mode) :
          Set(x, y, value)
    \/ Resume
    \/ Reset

Spec == InitSet /\ [][NextSet]_vars

\* The same caller on the 4x4 grid, passing any value a usize argument can
\* hold up to one past the largest digit.
InitSetAny == Idle(MODES["4"], default_grid(4), "idle")

NextSetAny ==
    \/ \E x \in SetCoords(mode), y \in SetCoords(mode), value \in 0..(block_size(mode) + 1) :
          /\ pc = "idle"
          /\ get_count(set(grid, mode, x, y, value).grid) <= MaxFilledAny
          /\ Set(x, y, value)
    \/ Resume
    \/ Reset

SpecSetAny == InitSetAny /\ [][NextSetAny]_vars

----------------------------------------------------------------------------
(* The solver, one action per step of solve_ultimately.  A frame of stack  *)
(* is one activation that is inside its for loop: the cell it branches on, *)
(* its allowed_numbers and the index i of the value it is trying.          *)

setVars == <<call, ret, prev>>
genVars == <<base_numbers, dig_numbers, puzzle>>
boardVars == <<attempts, difficulty, count>>

Top == stack[Len(stack)]
Pop == SubSeq(stack, 1, Len(stack) - 1)
\* the step to the next value as it would be if it stepped over one value
NextValue_skip == [stack EXCEPT ![Len(stack)].i = @ + 2]

\* the step to the next value as it would be if the loop did not advance
NextValue_same == stack

NextValue == [stack EXCEPT ![Len(stack)].i = @ + 1]

\* solve_ultimately is entered on a grid without an empty cell: return true
SolveSolved ==
    /\ pc = "solve_call"
    /\ is_solved(grid)
    /\ sret' = TRUE
    /\ pc' = "solve_ret"
    /\ UNCHANGED <<mode, grid, stack, input, caller, setVars, genVars, boardVars>>

\* solve_ultimately is entered on a grid with an empty cell: any_empty_cell
\* picks the cell and the for loop over its allowed_numbers starts
SolveBranch ==
    /\ pc = "solve_call"
    /\ ~is_solved(grid)
    /\ LET cell == any_empty_cell(grid, mode, None)
       IN  IF cell = None
           THEN /\ sret' = FALSE
                /\ pc' = "solve_ret"
                /\ stack' = stack
           ELSE /\ stack' = Append(stack,
                                   [x |-> cell[1], y |-> cell[2], i |-> 1,
                                    allowed_numbers |->
                                        allowed_numbers(grid, mode, cell[1], cell[2])])
                /\ pc' = "solve_loop"
                /\ sret' = sret
    /\ UNCHANGED <<mode, grid, input, caller, setVars, genVars, boardVars>>

\* one iteration of the for loop whose set succeeds: the recursive call
SolveTryOk ==
    /\ pc = "solve_loop"
    /\ Top.i <= Len(Top.allowed_numbers)
    /\ LET r == set(grid, mode, Top.x, Top.y, Top.allowed_numbers[Top.i])
       IN  /\ r.ret = "ok"
           /\ grid' = r.grid
    /\ pc' = "solve_call"
    /\ UNCHANGED <<mode, stack, sret, input, caller, setVars, genVars, boardVars>>

\* one iteration of the for loop whose set fails: no recursion, the cell is
\* cleared and the loop goes on with the next value
SolveTryErr ==
    /\ pc = "solve_loop"
    /\ Top.i <= Len(Top.allowed_numbers)
    /\ LET r == set(grid, mode, Top.x, Top.y, Top.allowed_numbers[Top.i])
       IN  /\ r.ret # "ok"
           /\ grid' = set(r.grid, mode, Top.x, Top.y, 0).grid
    /\ stack' = NextValue
    /\ UNCHANGED <<mode, pc, sret, input, caller, setVars, genVars, boardVars>>

\* the for loop is over: this activation returns false
SolveExhausted ==
    /\ pc = "solve_loop"
    /\ Top.i > Len(Top.allowed_numbers)
    /\ stack' = Pop
    /\ sret' = FALSE
    /\ pc' = "solve_ret"
    /\ UNCHANGED <<mode, grid, input, caller, setVars, genVars, boardVars>>

\* the recursive call returned true: this activation returns true
SolveUnwind ==
    /\ pc = "solve_ret"
    /\ stack # <<>>
    /\ sret
    /\ stack' = Pop
    /\ UNCHANGED <<mode, grid, pc, sret, input, caller, setVars, genVars, boardVars>>

\* the return from a failed recursive call as it would be without the
\* set(x, y, 0) that follows it
SolveBacktrack_keep ==
    /\ pc = "solve_ret"
    /\ stack # <<>>
    /\ ~sret
    /\ stack' = NextValue
    /\ pc' = "solve_loop"
    /\ UNCHANGED <<mode, grid, sret, input, caller, setVars, genVars, boardVars>>

\* the recursive call returned false: clear the cell, go on with the next value
SolveBacktrack ==
    /\ pc = "solve_ret"
    /\ stack # <<>>
    /\ ~sret
    /\ grid' = set(grid, mode, Top.x, Top.y, 0).grid
    /\ stack' = NextValue
    /\ pc' = "solve_loop"
    /\ UNCHANGED <<mode, sret, input, caller, setVars, genVars, boardVars>>

SolveStep ==
    \/ SolveSolved
    \/ SolveBranch
    \/ SolveTryOk
    \/ SolveTryErr
    \/ SolveExhausted
    \/ SolveUnwind
    \/ SolveBacktrack

----------------------------------------------------------------------------
(* solve on a board handed over with set_board (what SudokuBoard::solution *)
(* does with the 9x9 mode; here the 4x4 mode).                             *)

FullBoard ==
    [y \in 0..3 |->
        [x \in 0..3 |->
            CASE y = 0 -> <<1, 2, 3, 4>>[x + 1]
              [] y = 1 -> <<3, 4, 1, 2>>[x + 1]
              [] y = 2 -> <<2, 1, 4, 3>>[x + 1]
              [] y = 3 -> <<4, 3, 2, 1>>[x + 1]]]

\* a valid board with two givens, 4 at (0, 2) and 3 at (3, 3), on which the
\* search takes back placements before it finds a solution
SparseBoard == [default_grid(4) EXCEPT ![2][0] = 4, ![3][3] = 3]

RECURSIVE BoardsWithin(_)
BoardsWithin(k) ==
    IF k = 0 THEN {default_grid(4), FullBoard, SparseBoard}
    ELSE LET less == BoardsWithin(k - 1)
         IN  less \cup {[b EXCEPT ![y][x] = v] :
                           b \in less,
                           x \in 0..Min(MaxBoardX, 3),
                           y \in 0..Min(MaxBoardY, 3),
                           v \in 0..4}

Boards == BoardsWithin(MaxGivens)

InitSolve == Idle(MODES["4"], default_grid(4), "new")

set_board(board) ==
    /\ pc = "new"
    /\ grid' = board
    /\ pc' = "ready"
    /\ UNCHANGED <<mode, stack, sret, input, caller, setVars, genVars, boardVars>>

\* solve is entered
solve ==
    /\ pc = "ready"
    /\ input' = grid
    /\ caller' = "solve"
    /\ pc' = "solve_call"
    /\ UNCHANGED <<mode, grid, stack, sret, setVars, genVars, boardVars>>

\* solve returns: Some(grid) when solve_ultimately returned true, else None
solve_return ==
    /\ pc = "solve_ret"
    /\ stack = <<>>
    /\ caller = "solve"
    /\ pc' = "solve_done"
    /\ UNCHANGED <<mode, grid, stack, sret, input, caller, setVars, genVars, boardVars>>

NextSolve ==
    \/ (pc = "new" /\ \E board \in Boards : set_board(board))
    \/ solve
    \/ SolveStep
    \/ solve_return

SpecSolve == InitSolve /\ [][NextSolve]_vars

\* The steps above and the function solve_ultimately are the same solver: when
\* solve returns, its answer and its grid are those of the function on input.
SolveStepsAgree ==
    pc = "solve_done" => [ok |-> sret, grid |-> grid] = solve_ultimately(input, mode)

----------------------------------------------------------------------------
(* generate, first half: reset, the seeding loop, the solvability check    *)
(* and the restart.  The values drawn from rng are the actions' arguments. *)

min_allowed_size(m) == block_size(m) \div 3
max_allowed_size(m) == block_size(m) - 2
grid_cell_size(m) == block_size(m) * block_size(m)

InitSeed == Idle(MODES["4"], default_grid(4), "gen_start")

\* generate is entered (also by the recursive call): reset, base_numbers
generate ==
    /\ pc = "gen_start"
    /\ grid' = default_grid(block_size(mode))
    /\ base_numbers' = mode.lower_size
    /\ pc' = "seed"
    /\ UNCHANGED <<mode, stack, sret, input, caller, setVars, dig_numbers, puzzle,
                   boardVars>>

\* an iteration of the seeding loop that calls set
SeedPlace(fill_x, fill_y, random_index) ==
    /\ pc = "seed"
    /\ base_numbers > 0
    /\ LET allowed == allowed_numbers(grid, mode, fill_x, fill_y)
       IN  /\ Len(allowed) > min_allowed_size(mode)
           /\ random_index < Len(allowed)
           /\ LET r == set(grid, mode, fill_x, fill_y, allowed[random_index + 1])
              IN  /\ grid' = r.grid
                  /\ base_numbers' = IF r.ret = "ok" THEN base_numbers - 1
                                                      ELSE base_numbers
    /\ UNCHANGED <<mode, pc, stack, sret, input, caller, setVars, dig_numbers, puzzle,
                   boardVars>>

\* an iteration of the seeding loop whose cell has too few allowed numbers
SeedSkip(fill_x, fill_y) ==
    /\ pc = "seed"
    /\ base_numbers > 0
    /\ Len(allowed_numbers(grid, mode, fill_x, fill_y)) <= min_allowed_size(mode)
    /\ UNCHANGED vars

\* the seeding loop is over: self.solve()
SeedSolve ==
    /\ pc = "seed"
    /\ base_numbers = 0
    /\ input' = grid
    /\ caller' = "generate"
    /\ pc' = "solve_call"
    /\ UNCHANGED <<mode, grid, stack, sret, setVars, genVars, boardVars>>

\* solve returned None: self.generate(); return.  (What the returned solve
\* leaves in input, caller and sret is dead from here on.)
GenRestart ==
    /\ pc = "solve_ret"
    /\ stack = <<>>
    /\ caller = "generate"
    /\ ~sret
    /\ pc' = "gen_start"
    /\ input' = NoGrid
    /\ caller' = "none"
    /\ sret' = FALSE
    /\ UNCHANGED <<mode, grid, stack, setVars, genVars, boardVars>>

\* solve returned Some: go on to the digging phase
GenSolved ==
    /\ pc = "solve_ret"
    /\ stack = <<>>
    /\ caller = "generate"
    /\ sret
    /\ pc' = "dig_init"
    /\ input' = NoGrid
    /\ caller' = "none"
    /\ sret' = FALSE
    /\ UNCHANGED <<mode, grid, stack, setVars, genVars, boardVars>>

FillX(m) == 0..Min(MaxFillX, block_size(m) - 1)
FillY(m) == 0..Min(MaxFillY, block_size(m) - 1)

NextSeed ==
    \/ generate
    \/ (pc = "seed" /\ \E fill_x \in FillX(mode), fill_y \in FillY(mode) :
            \E random_index \in 0..(block_size(mode) - 1) :
                SeedPlace(fill_x, fill_y, random_index))
    \/ (pc = "seed" /\ \E fill_x \in FillX(mode), fill_y \in FillY(mode) :
            SeedSkip(fill_x, fill_y))
    \/ SeedSolve
    \/ SolveStep
    \/ GenRestart
    \/ GenSolved

SpecSeed == InitSeed /\ [][NextSeed]_vars

----------------------------------------------------------------------------
(* generate, second half: the digging loop and the return, followed by the *)
(* caller solving the puzzle it got (SudokuBoard::solution).  It starts    *)
(* where SpecSeed ends: at line 123, on a grid a successful solve left.    *)

\* a grid that the first half leaves at line 123: SpecSeed reaches a state that
\* satisfies DigStartReached
DigStarts == {FullBoard}

DigStartReached == pc = "dig_init" /\ grid \in DigStarts

InitDig == \E g \in DigStarts : Idle(MODES["4"], g, "dig_init")

\* dig_numbers = grid_cell_size - rng.gen_range(lower_size..=higher_size)
DigTarget(r) ==
    /\ pc = "dig_init"
    /\ dig_numbers' = grid_cell_size(mode) - r
    /\ pc' = "dig"
    /\ UNCHANGED <<mode, grid, stack, sret, input, caller, setVars, base_numbers,
                   puzzle, boardVars>>

\* the test of the digging loop as it would be without get(dig_x, dig_y) > 0
Diggable_unfilled(g, m, dig_x, dig_y) ==
    Len(allowed_numbers(g, m, dig_x, dig_y)) < max_allowed_size(m)

\* the test of the digging loop on the drawn cell
Diggable(g, m, dig_x, dig_y) ==
    /\ get(g, dig_x, dig_y) > 0
    /\ Len(allowed_numbers(g, m, dig_x, dig_y)) < max_allowed_size(m)

\* an iteration of the digging loop that clears the drawn cell
DigClear(dig_x, dig_y) ==
    /\ pc = "dig"
    /\ dig_numbers > 0
    /\ Diggable(grid, mode, dig_x, dig_y)
    /\ grid' = set(grid, mode, dig_x, dig_y, 0).grid
    /\ dig_numbers' = dig_numbers - 1
    /\ UNCHANGED <<mode, pc, stack, sret, input, caller, setVars, base_numbers,
                   puzzle, boardVars>>

\* an iteration of the digging loop that leaves the drawn cell alone
DigSkip(dig_x, dig_y) ==
    /\ pc = "dig"
    /\ dig_numbers > 0
    /\ ~Diggable(grid, mode, dig_x, dig_y)
    /\ UNCHANGED vars

\* the digging loop is over: generate returns
generate_return ==
    /\ pc = "dig"
    /\ dig_numbers = 0
    /\ puzzle' = grid
    /\ pc' = "generated"
    /\ UNCHANGED <<mode, grid, stack, sret, input, caller, setVars, base_numbers,
                   dig_numbers, boardVars>>

\* SudokuBoard::solution: set_board of the generated board on a new Sudoku,
\* then solve, taken as one step
solution ==
    /\ pc = "generated"
    /\ LET r == solve_ultimately(puzzle, mode)
       IN  /\ grid' = r.grid
           /\ sret' = r.ok
    /\ input' = puzzle
    /\ caller' = "solve"
    /\ pc' = "solve_done"
    /\ UNCHANGED <<mode, stack, setVars, genVars, boardVars>>

DigCoords(m) == 0..(block_size(m) - 1)
DigRows(m) == 0..Min(MaxDigY, block_size(m) - 1)

NextDig ==
    \/ (pc = "dig_init" /\ \E r \in (mode.lower_size)..(mode.higher_size) : DigTarget(r))
    \/ (pc = "dig" /\ \E dig_x \in DigCoords(mode), dig_y \in DigRows(mode) :
            DigClear(dig_x, dig_y))
    \/ (pc = "dig" /\ \E dig_x \in DigCoords(mode), dig_y \in DigRows(mode) :
            DigSkip(dig_x, dig_y))
    \/ generate_return
    \/ solution

SpecDig == InitDig /\ [][NextDig]_vars

----------------------------------------------------------------------------
(* The digging loop with every cell drawn, under fair random choice: a     *)
(* cell that passes the test of the loop is drawn at some time.            *)

DigSample == \E r \in (mode.lower_size)..(mode.higher_size) : DigTarget(r)

DigProgress ==
    \E dig_x \in DigCoords(mode), dig_y \in DigCoords(mode) : DigClear(dig_x, dig_y)

DigMiss ==
    \E dig_x \in DigCoords(mode), dig_y \in DigCoords(mode) : DigSkip(dig_x, dig_y)

NextDigAll ==
    \/ (pc = "dig_init" /\ DigSample)
    \/ (pc = "dig" /\ DigProgress)
    \/ (pc = "dig" /\ DigMiss)
    \/ generate_return

SpecDigFair ==
    /\ InitDig
    /\ [][NextDigAll]_vars
    /\ WF_vars(DigSample)
    /\ WF_vars(DigProgress)
    /\ WF_vars(generate_return)

----------------------------------------------------------------------------
(* gen_board_with_difficulty (main.rs).  It always builds the 9x9 mode.    *)
(* Of the board an attempt generates only the number of filled cells is    *)
(* kept: generate leaves grid_cell_size - dig_numbers cells, the sampled   *)
(* value of lower_size..=higher_size (sudoku.rs:123-133).                  *)

max_attempts == 100

Difficulty == {"Easy", "Medium", "Hard"}

\* get_cell_ranges as it would be with Medium reaching up to 40
get_cell_ranges_overlap(d) ==
    CASE d = "Easy" -> <<40, 81>>
      [] d = "Medium" -> <<25, 40>>
      [] d = "Hard" -> <<17, 24>>

get_cell_ranges(d) ==
    CASE d = "Easy" -> <<40, 81>>
      [] d = "Medium" -> <<25, 39>>
      [] d = "Hard" -> <<17, 24>>

GeneratedCounts(m) == (m.lower_size)..(m.higher_size)

InBand(d, c) ==
    LET min_cells == get_cell_ranges(d)[1]
        max_cells == get_cell_ranges(d)[2]
    IN  c >= min_cells /\ c <= max_cells

InitBoard ==
    \E d \in Difficulty :
        /\ mode = MODES["9"]
        /\ grid = NoGrid
        /\ pc = "board_loop"
        /\ call = NoCall
        /\ ret = "none"
        /\ prev = NoGrid
        /\ stack = <<>>
        /\ sret = FALSE
        /\ input = NoGrid
        /\ caller = "none"
        /\ base_numbers = 0
        /\ dig_numbers = 0
        /\ puzzle = NoGrid
        /\ attempts = 0
        /\ difficulty = d
        /\ count = 0

\* an attempt whose count is in the band: the board is returned
BoardHit(c) ==
    /\ pc = "board_loop"
    /\ InBand(difficulty, c)
    /\ count' = c
    /\ pc' = "board_returned"
    /\ UNCHANGED <<mode, grid, stack, sret, input, caller, setVars, genVars,
                   attempts, difficulty>>

\* the loop as it would go on with attempts > max_attempts as the test
BoardMiss_late(c) ==
    /\ pc = "board_loop"
    /\ ~InBand(difficulty, c)
    /\ attempts + 1 <= max_attempts
    /\ count' = c
    /\ attempts' = attempts + 1
    /\ UNCHANGED <<mode, grid, pc, stack, sret, input, caller, setVars, genVars,
                   difficulty>>

\* an attempt whose count is outside the band, below the cap: loop
BoardMiss(c) ==
    /\ pc = "board_loop"
    /\ ~InBand(difficulty, c)
    /\ attempts + 1 < max_attempts
    /\ count' = c
    /\ attempts' = attempts + 1
    /\ UNCHANGED <<mode, grid, pc, stack, sret, input, caller, setVars, genVars,
                   difficulty>>

\* an attempt whose count is outside the band and that reaches the cap: the
\* board of this attempt is returned
BoardGiveUp(c) ==
    /\ pc = "board_loop"
    /\ ~InBand(difficulty, c)
    /\ attempts + 1 >= max_attempts
    /\ count' = c
    /\ attempts' = attempts + 1
    /\ pc' = "board_returned"
    /\ UNCHANGED <<mode, grid, stack, sret, input, caller, setVars, genVars,
                   difficulty>>

NextBoard ==
    \/ \E c \in GeneratedCounts(mode) : BoardHit(c)
    \/ \E c \in GeneratedCounts(mode) : BoardMiss(c)
    \/ \E c \in GeneratedCounts(mode) : BoardGiveUp(c)

SpecBoard == InitBoard /\ [][NextBoard]_vars

----------------------------------------------------------------------------
(* get_difficulty, on the blank grid of each mode and on boards handed     *)
(* over with set_board.  Only the number of nonzero cells matters to it,   *)
(* so the boards are those with the first k cells (row by row) filled.     *)

\* get_difficulty as it would be with the Hard arm matching 0..=24
get_difficulty_from_zero(g) ==
    LET c == get_count(g)
    IN  IF 40 <= c /\ c <= 81 THEN "Easy"
        ELSE IF 25 <= c /\ c <= 39 THEN "Medium"
        ELSE IF 0 <= c /\ c <= 24 THEN "Hard"
        ELSE "Unknown"

\* the match arms in the order of the code
get_difficulty(g) ==
    LET c == get_count(g)
    IN  IF 40 <= c /\ c <= 81 THEN "Easy"
        ELSE IF 25 <= c /\ c <= 39 THEN "Medium"
        ELSE IF 1 <= c /\ c <= 24 THEN "Hard"
        ELSE "Unknown"

PrefixBoard(n, k) ==
    [y \in 0..(n - 1) |-> [x \in 0..(n - 1) |-> IF y * n + x < k THEN (x % n) + 1 ELSE 0]]

\* the boards of the mode's size, and those of the largest size
CountBoards(m) ==
    {PrefixBoard(block_size(m), k) : k \in 0..grid_cell_size(m)}
        \cup {PrefixBoard(MaxSide, k) : k \in 0..(MaxSide * MaxSide)}

InitDifficulty ==
    \E k \in DOMAIN MODES : Idle(MODES[k], default_grid(block_size(MODES[k])), "new")

\* get_difficulty is called, on the blank grid or after set_board
classify ==
    /\ pc \in {"new", "ready"}
    /\ count' = get_count(grid)
    /\ ret' = get_difficulty(grid)
    /\ pc' = "classified"
    /\ UNCHANGED <<mode, grid, call, prev, stack, sret, input, caller, genVars,
                   attempts, difficulty>>

NextDifficulty ==
    \/ (pc = "new" /\ \E board \in CountBoards(mode) : set_board(board))
    \/ classify

SpecDifficulty == InitDifficulty /\ [][NextDifficulty]_vars

----------------------------------------------------------------------------
(* What "already present" means, stated on the cells themselves.           *)

Cells(g) == (DOMAIN g) \X (DOMAIN g)

InRow(g, y, v) == \E x \in DOMAIN g : g[y][x] = v

InColumn(g, x, v) == \E y \in DOMAIN g : g[y][x] = v

SameBlock(m, x1, y1, x2, y2) ==
    /\ x1 \div m.width = x2 \div m.width
    /\ y1 \div m.height = y2 \div m.height

InBlock(g, m, x, y, v) ==
    \E c \in Cells(g) : SameBlock(m, x, y, c[1], c[2]) /\ g[c[2]][c[1]] = v

Present(g, m, x, y, v) == InRow(g, y, v) \/ InColumn(g, x, v) \/ InBlock(g, m, x, y, v)

\* the grid holds exactly the given cells: given is a set of <<x, y, value>>
Holds(g, given) ==
    \A c \in Cells(g) :
        g[c[2]][c[1]] = IF \E t \in given : t[1] = c[1] /\ t[2] = c[2]
                        THEN (CHOOSE t \in given : t[1] = c[1] /\ t[2] = c[2])[3]
                        ELSE 0

----------------------------------------------------------------------------
(* C1 (legality of candidates): in every grid and for every cell (x, y),   *)
(* allowed_numbers(x, y) holds no digit that is already present in row y,  *)
(* in column x or in the block of (x, y), also when the block-only list    *)
(* has at most one member and is returned as it is.                        *)
C1_CandidatesLegal ==
    pc = "idle" =>
        \A c \in Cells(grid) :
            LET allowed == allowed_numbers(grid, mode, c[1], c[2])
            IN  \A i \in DOMAIN allowed : ~Present(grid, mode, c[1], c[2], allowed[i])

----------------------------------------------------------------------------
(* C3 (placement errors of set): a set(x, y, v) with v nonzero and         *)
(* different from the cell's value returns the row error when v is in row  *)
(* y, else the column error when v is in column x, else the block error    *)
(* when v is in the block of (x, y), else succeeds and writes v; on the    *)
(* blank 9x9 grid set(0,0,5) succeeds, then set(0,1,5) names the column,   *)
(* set(1,0,5) names the row and set(3,3,5) succeeds.                       *)
C3_Expected(g, m, x, y, v) ==
    IF InRow(g, y, v) THEN "row"
    ELSE IF InColumn(g, x, v) THEN "column"
    ELSE IF InBlock(g, m, x, y, v) THEN "block"
    ELSE "ok"

C3_Scenario ==
    (pc = "returned" /\ block_size(mode) = 9) =>
        /\ (Holds(prev, {}) /\ call = [x |-> 0, y |-> 0, value |-> 5])
               => (ret = "ok" /\ Holds(grid, {<<0, 0, 5>>}))
        /\ (Holds(prev, {<<0, 0, 5>>}) /\ call = [x |-> 0, y |-> 1, value |-> 5])
               => ret = "column"
        /\ (Holds(prev, {<<0, 0, 5>>}) /\ call = [x |-> 1, y |-> 0, value |-> 5])
               => ret = "row"
        /\ (Holds(prev, {<<0, 0, 5>>}) /\ call = [x |-> 3, y |-> 3, value |-> 5])
               => (ret = "ok" /\ Holds(grid, {<<0, 0, 5>>, <<3, 3, 5>>}))

C3_SetPlacementErrors ==
    /\ (pc = "returned" /\ call.value > 0 /\ prev[call.y][call.x] # call.value) =>
           /\ ret = C3_Expected(prev, mode, call.x, call.y, call.value)
           /\ ret = "ok" => grid[call.y][call.x] = call.value
    /\ C3_Scenario

\* the scenario's second call: 5 is in column 0 only, and set names the column
C3_Witness ==
    /\ pc = "returned"
    /\ block_size(mode) = 9
    /\ Holds(prev, {<<0, 0, 5>>})
    /\ call = [x |-> 0, y |-> 1, value |-> 5]
    /\ ret = "column"

----------------------------------------------------------------------------
(* C4 (frame of set): when set(x, y, v) returns an error every cell, (x,   *)
(* y) included, holds what it held before the call; a successful set       *)
(* changes no cell other than (x, y).                                      *)
C4_SetFrame ==
    pc = "returned" =>
        /\ ret # "ok" => grid = prev
        /\ ret = "ok" =>
               \A c \in Cells(grid) :
                   (c[1] # call.x \/ c[2] # call.y) => grid[c[2]][c[1]] = prev[c[2]][c[1]]

\* a rejected write into a grid that already holds cells
C4_Witness ==
    /\ pc = "returned"
    /\ ret = "block"
    /\ get_count(prev) >= 2
    /\ prev[call.y][call.x] # 0

----------------------------------------------------------------------------
(* C5 (idempotence of set): after a successful set(x, y, v), the same call *)
(* made again at once succeeds and leaves the grid as the first call left  *)
(* it; set(x, y, 0) always succeeds.                                       *)
C5_SetIdempotent ==
    /\ (pc = "returned" /\ ret = "ok") =>
           set(grid, mode, call.x, call.y, call.value) = [ret |-> "ok", grid |-> grid]
    /\ (pc = "returned" /\ call.value = 0) =>
           (ret = "ok" /\ grid[call.y][call.x] = 0)

\* a successful write of a digit over another digit
C5_Witness ==
    /\ pc = "returned"
    /\ ret = "ok"
    /\ call.value > 0
    /\ prev[call.y][call.x] > 0
    /\ prev[call.y][call.x] # call.value

----------------------------------------------------------------------------
(* The grid validity invariant: every nonzero value is unique within its   *)
(* row, its column and its block.                                          *)
Valid(g, m) ==
    \A c \in Cells(g), d \in Cells(g) :
        (/\ c # d
         /\ g[c[2]][c[1]] # 0
         /\ (c[1] = d[1] \/ c[2] = d[2] \/ SameBlock(m, c[1], c[2], d[1], d[2])))
        => g[c[2]][c[1]] # g[d[2]][d[1]]

NoEmptyCell(g) == \A c \in Cells(g) : g[c[2]][c[1]] # 0

----------------------------------------------------------------------------
(* The completely filled valid 4x4 grids, built from the permutations of   *)
(* 1..4 without reference to the solver: what "a valid completion exists"  *)
(* is measured against.                                                    *)

Rows4 == {r \in [0..3 -> 1..4] : \A i, j \in 0..3 : i # j => r[i] # r[j]}

\* two rows that can be the two rows of a band of 2x2 blocks
Bands4 ==
    {b \in Rows4 \X Rows4 :
        /\ {b[1][0], b[1][1]} \cap {b[2][0], b[2][1]} = {}
        /\ {b[1][2], b[1][3]} \cap {b[2][2], b[2][3]} = {}}

ValidFull4 ==
    {[y \in 0..3 |-> IF y < 2 THEN t[y + 1] ELSE b[y - 1]] :
        <<t, b>> \in {p \in Bands4 \X Bands4 :
                         \A x \in 0..3 : {p[1][1][x], p[1][2][x]} \cap {p[2][1][x], p[2][2][x]} = {}}}

----------------------------------------------------------------------------
(* C2 (soundness of solve): for every grid handed to solve, a grid that    *)
(* solve returns has no empty cell and every nonzero value of it is unique *)
(* within its row, its column and its block.                               *)
C2_SolveResultValid ==
    (pc = "solve_done" /\ sret) => (NoEmptyCell(grid) /\ Valid(grid, mode))

----------------------------------------------------------------------------
(* C10 (generate terminates): every call to generate eventually returns a  *)
(* grid; when a loop can make no more progress (no cell that can be drawn  *)
(* passes its test) generate still finishes, under fair random choice.     *)
C10_GenerateReturns == <>(pc = "generated")

----------------------------------------------------------------------------
(* C6 (round trip): solve on a puzzle that generate returned yields a grid *)
(* in which every cell that is filled in the puzzle holds the puzzle's     *)
(* value, so setting each of these cells to its generated value on the     *)
(* solved grid succeeds.                                                   *)
Keeps(solved, given) ==
    \A c \in Cells(given) :
        given[c[2]][c[1]] # 0 => solved[c[2]][c[1]] = given[c[2]][c[1]]

C6_RoundTrip ==
    pc = "solve_done" =>
        /\ sret
        /\ NoEmptyCell(grid)
        /\ Keeps(grid, puzzle)
        /\ \A c \in Cells(puzzle) :
               puzzle[c[2]][c[1]] # 0 =>
                   set(grid, mode, c[1], c[2], puzzle[c[2]][c[1]])
                       = [ret |-> "ok", grid |-> grid]

\* a sparsest puzzle whose solution is not the grid it was dug from
C6_Witness ==
    /\ pc = "solve_done"
    /\ sret
    /\ get_count(puzzle) = mode.lower_size
    /\ grid \notin DigStarts

----------------------------------------------------------------------------
(* C7 (density of the puzzle): digging starts from a completely filled     *)
(* grid and clears only filled cells, one per decrement of dig_numbers, so *)
(* when generate returns the number of nonzero cells is the sampled r, in  *)
(* lower_size..higher_size of the mode (4..8 for size 4).                  *)
InRange(m, n) == m.lower_size <= n /\ n <= m.higher_size

C7_FilledCountInRange ==
    /\ pc = "dig_init" => get_count(grid) = grid_cell_size(mode)
    /\ pc = "dig" => InRange(mode, get_count(grid) - dig_numbers)
    /\ pc = "generated" =>
           (dig_numbers = 0 /\ puzzle = grid /\ InRange(mode, get_count(grid)))
    /\ (pc = "generated" /\ block_size(mode) = 4) =>
           (4 <= get_count(grid) /\ get_count(grid) <= 8)

\* generate returns a puzzle of the smallest density
C7_Witness ==
    /\ pc = "generated"
    /\ get_count(puzzle) = mode.lower_size

----------------------------------------------------------------------------
(* C9 (4x4 seeds): as claimed, every grid the seeding phase of the 4x4     *)
(* mode produces is solvable, so generate never takes the restart path.    *)
SeedChecked == pc = "solve_ret" /\ stack = <<>> /\ caller = "generate"

C9_SeedAlwaysSolvable == SeedChecked => sret

(* C9 as amended: the seeding phase of the 4x4 mode produces valid grids   *)
(* only, but solve returns None for some of them and generate restarts;    *)
(* when solve returns a solution the grid is completely filled, valid and  *)
(* keeps every seeded cell, and digging starts from it.                    *)
C9_SeedSolvedOrRestart ==
    /\ pc = "seed" => Valid(grid, mode)
    /\ SeedChecked => Valid(input, mode)
    /\ (SeedChecked /\ sret) =>
           (NoEmptyCell(grid) /\ Valid(grid, mode) /\ Keeps(grid, input))
    /\ pc = "dig_init" => (NoEmptyCell(grid) /\ Valid(grid, mode))

\* solve has just returned None for the seed 1 2 . . / 4 . 3 .
C9_Witness ==
    /\ SeedChecked
    /\ ~sret
    /\ Holds(input, {<<0, 0, 1>>, <<1, 0, 2>>, <<2, 1, 3>>, <<0, 1, 4>>})

----------------------------------------------------------------------------
(* C8 (difficulty banding): a board that gen_board_with_difficulty returns *)
(* before the 100th failed attempt has its filled-cell count in the        *)
(* requested band: Easy 40..81, Medium 25..39, Hard 17..24.                *)
C8_Band(d) ==
    CASE d = "Easy" -> 40..81
      [] d = "Medium" -> 25..39
      [] d = "Hard" -> 17..24

C8_ReturnInBand ==
    (pc = "board_returned" /\ attempts < 100) => count \in C8_Band(difficulty)

\* an Easy board returned by the last attempt the cap allows
C8_Witness ==
    /\ pc = "board_returned"
    /\ difficulty = "Easy"
    /\ attempts = 99
    /\ count = 40

----------------------------------------------------------------------------
(* C11 (difficulty label): get_difficulty returns "Easy" for a filled-cell *)
(* count in 40..81, "Medium" for 25..39, "Hard" for 1..24 and "Unknown"    *)
(* for 0 or any other count, whatever the grid size; a blank grid of any   *)
(* supported size has count 0 and is classified "Unknown".                 *)
C11_Label(c) ==
    CASE c \in 40..81 -> "Easy"
      [] c \in 25..39 -> "Medium"
      [] c \in 1..24 -> "Hard"
      [] OTHER -> "Unknown"

C11_DifficultyLabel ==
    pc = "classified" =>
        /\ count = Cardinality({c \in Cells(grid) : grid[c[2]][c[1]] # 0})
        /\ ret = C11_Label(count)
        /\ (\A c \in Cells(grid) : grid[c[2]][c[1]] = 0) => (count = 0 /\ ret = "Unknown")

\* the blank grid of the 9x9 mode has been classified
C11_Witness ==
    /\ pc = "classified"
    /\ block_size(mode) = 9
    /\ grid = default_grid(9)
    /\ ret = "Unknown"

----------------------------------------------------------------------------
(* C12 (validity invariant under set): starting from a blank grid, after   *)
(* any sequence of set calls, successful or failed, overwriting filled     *)
(* cells or clearing them with 0, every nonzero cell value is in 1..N and  *)
(* is unique within its row, its column and its block.                     *)
C12_SetKeepsValid ==
    /\ \A c \in Cells(grid) : grid[c[2]][c[1]] \in 0..block_size(mode)
    /\ \A c \in Cells(grid) :
           LET v == grid[c[2]][c[1]]
           IN  v # 0 =>
                   \A d \in Cells(grid) \ {c} :
                       (d[1] = c[1] \/ d[2] = c[2] \/ SameBlock(mode, c[1], c[2], d[1], d[2]))
                           => grid[d[2]][d[1]] # v

\* a filled cell has just been overwritten with another digit, in a grid that
\* holds as many cells as the caller fills
C12_Witness ==
    /\ pc = "returned"
    /\ ret = "ok"
    /\ call.value > 0
    /\ prev[call.y][call.x] \notin {0, call.value}
    /\ get_count(grid) = MaxFilledAny

----------------------------------------------------------------------------
(* C13 (completeness of solve): for every input grid that satisfies the    *)
(* validity invariant, solve returns None only if no assignment of digits  *)
(* to the empty cells yields a full valid grid; whenever a valid           *)
(* completion of the input exists solve returns a solution.                *)
Completions(g) == {s \in ValidFull4 : Keeps(s, g)}

C13_SolveComplete ==
    (pc = "solve_done" /\ Valid(input, mode) /\ Completions(input) # {}) =>
        (sret /\ grid \in Completions(input))

\* solve has returned a solution of the board with two givens
C13_Witness ==
    /\ pc = "solve_done"
    /\ input = SparseBoard
    /\ sret
    /\ grid \in Completions(input)

\* inside a solve of a valid input that has a completion, a recursive call has
\* just returned false: the solutions above are not all found at the first try
C13_Backtracking ==
    /\ pc = "solve_ret"
    /\ ~sret
    /\ stack # <<>>
    /\ Valid(input, mode)
    /\ Completions(input) # {}

----------------------------------------------------------------------------
(* C14 (failed solve restores the grid): whenever solve returns None the   *)
(* grid is cell for cell the grid on entry to solve; every cell the failed *)
(* search filled has been cleared and no partial placement remains.        *)
C14_FailedSolveRestores ==
    /\ (pc = "solve_done" /\ ~sret) => grid = input
    /\ (pc = "solve_ret" /\ ~sret /\ stack = <<>>) => grid = input

\* solve has returned None for 1 2 . . / . . 3 ., after it had placed 4 at
\* (2, 0) and found no digit for (3, 0)
C14_Witness ==
    /\ pc = "solve_done"
    /\ ~sret
    /\ Holds(input, {<<0, 0, 1>>, <<1, 0, 2>>, <<2, 1, 3>>})
    /\ grid = input

----------------------------------------------------------------------------
(* C15 (most constrained cell first): at every step of the search the cell *)
(* the solver branches on, the one any_empty_cell returned, has no more    *)
(* candidates than any other empty cell of the grid; when some empty cell  *)
(* has no candidate the branch fails without placing any value.            *)
Branched == pc = "solve_loop" /\ Top.i = 1

EmptyCells(g) == {c \in Cells(g) : g[c[2]][c[1]] = 0}

C15_FewestCandidatesFirst ==
    Branched =>
        /\ \A c \in EmptyCells(grid) :
               Len(Top.allowed_numbers) <= Len(allowed_numbers(grid, mode, c[1], c[2]))
        /\ (\E c \in EmptyCells(grid) : allowed_numbers(grid, mode, c[1], c[2]) = <<>>)
               => Top.allowed_numbers = <<>>

----------------------------------------------------------------------------
(* C16 (seeding fills empty cells): during the seeding phase of generate   *)
(* every placement is made into a cell that is empty at that moment, so    *)
(* each decrement of base_numbers adds one nonzero cell and when the loop  *)
(* ends exactly lower_size cells of the grid are nonzero.                  *)
C16_SeedCountsPlacements ==
    /\ pc = "seed" => get_count(grid) = mode.lower_size - base_numbers
    /\ (pc = "solve_call" /\ caller = "generate" /\ stack = <<>>)
           => get_count(input) = mode.lower_size

----------------------------------------------------------------------------
(* C17 (retry cap): gen_board_with_difficulty runs generate at most 100    *)
(* times per call; when all 100 attempts miss the requested band it        *)
(* returns the board of the last, the 100th, attempt whatever its count.   *)
(* attempts counts the misses, so the boards generated so far are attempts *)
(* of them, and one more when the call returned on a hit.                  *)
C17_Generated ==
    attempts + (IF pc = "board_returned" /\ count \in C8_Band(difficulty) THEN 1 ELSE 0)

C17_AtMostHundredAttempts ==
    /\ C17_Generated <= 100
    /\ pc = "board_loop" => attempts < 100
    /\ (pc = "board_returned" /\ count \notin C8_Band(difficulty)) => attempts = 100
    /\ (pc = "board_returned" /\ attempts = 100) =>
           (count \notin C8_Band(difficulty) /\ count \in 17..40)

\* a Hard board was asked for, 100 boards missed the band and the last one,
\* with 40 cells, is returned
C17_Witness ==
    /\ pc = "board_returned"
    /\ difficulty = "Hard"
    /\ attempts = 100
    /\ count = 40

----------------------------------------------------------------------------------------------------------------------------------------
(* C18 (solve terminates): solve terminates on every input grid, valid or  *)
(* contradictory, with a solution or None: every recursive call happens    *)
(* after one more empty cell has been filled, so the activations are never *)
(* more than the empty cells of the input, and a placement that set        *)
(* rejects triggers no recursion.                                          *)
(*                                                                         *)
(* Termination is stated with a variant.  Position is where the search     *)
(* stands: one entry for solve and one for each activation inside its for  *)
(* loop, made of the index i of the value it is at and of whether the      *)
(* value is about to be tried (0), is being explored by the recursive call *)
(* (1) or has been explored (2).  The entries are bounded and their number *)
(* is bounded, no step of the solver blocks, and every step moves Position *)
(* forward in the lexicographic order, so the steps of a call are finitely *)
(* many and the last of them is the return.                                *)
Solving == pc \in {"solve_call", "solve_loop", "solve_ret"}

Position ==
    LET n == Len(stack)
        here == CASE pc = "solve_loop" -> 0
                  [] pc = "solve_call" -> 1
                  [] OTHER -> 2
    IN  [j \in 1..(n + 1) |->
            IF j = 1 THEN (IF n = 0 THEN here ELSE 1)
            ELSE 3 * stack[j - 1].i + (IF j = n + 1 THEN here ELSE 1)]

\* a is a proper prefix of b, or is smaller where they first differ
Before(a, b) ==
    \E k \in 1..Len(b) :
        /\ k <= Len(a) + 1
        /\ \A j \in 1..(k - 1) : a[j] = b[j]
        /\ k <= Len(a) => a[k] < b[k]

C18_OneMoreCellPerCall ==
    /\ pc = "solve_call" => get_count(grid) = get_count(input) + Len(stack)
    /\ pc = "solve_loop" => get_count(grid) = get_count(input) + Len(stack) - 1
    /\ Solving => Len(stack) <= grid_cell_size(mode) - get_count(input)
    /\ Solving => \A j \in DOMAIN stack :
                      stack[j].i \in 1..(Len(stack[j].allowed_numbers) + 1)
                      /\ Len(stack[j].allowed_numbers) <= block_size(mode)

\* in every state of a running solve the code has a next step to take
C18_NeverBlocked ==
    /\ pc = "solve_loop" => stack # <<>>
    /\ (pc = "solve_ret" /\ stack = <<>>) => caller = "solve"
    /\ pc = "solve_done" => (stack = <<>> /\ sret \in BOOLEAN)

C18_Rejected ==
    /\ pc = "solve_loop"
    /\ Top.i <= Len(Top.allowed_numbers)
    /\ set(grid, mode, Top.x, Top.y, Top.allowed_numbers[Top.i]).ret # "ok"

C18_SolveTerminates ==
    /\ [](C18_OneMoreCellPerCall /\ C18_NeverBlocked)
    /\ [][(Solving /\ Solving') => Before(Position, Position')]_vars
    /\ [][C18_Rejected => (pc' = "solve_loop" /\ Len(stack') = Len(stack))]_vars

\* solve has returned None for a contradictory input that has empty cells
C18_Witness ==
    /\ pc = "solve_done"
    /\ ~sret
    /\ ~Valid(input, mode)
    /\ get_count(input) <= MaxGivens

----------------------------------------------------------------------------
(* C19 (solve keeps the givens): solve never changes a cell that is        *)
(* nonzero in its input; in every state reached during the search and in   *)
(* the returned solution each cell filled on entry holds the value it had  *)
(* on entry, the solver writes to and clears only cells that were empty.   *)
C19_GivensKept ==
    (Solving \/ pc = "solve_done") =>
        /\ \A c \in Cells(input) :
               input[c[2]][c[1]] # 0 => grid[c[2]][c[1]] = input[c[2]][c[1]]
        /\ \A j \in DOMAIN stack : input[stack[j].y][stack[j].x] = 0

\* in the search on the board with two givens, a for loop is past its first
\* value: a placement has been taken back
C19_Witness ==
    /\ pc = "solve_loop"
    /\ input = SparseBoard
    /\ Top.i > 1
    /\ grid # input

====
